---- MODULE Spec2Model ----
(***************************************************************************)
(* Model of the Tasqueue server runtime (package tasqueue, server.go):     *)
(* the task registry, Start's consumer/worker pools, the worker dispatch   *)
(* loop (process), job execution with retries and chain continuation       *)
(* (execJob, retryJob) and the status writes.                              *)
(*                                                                         *)
(* The broker, the results store, the message codec and the enqueue path   *)
(* (jobs.go) are collaborators whose code is outside server.go; they are   *)
(* modelled from their contracts in the specification (sections 4.2, 6).   *)
(***************************************************************************)
EXTENDS Integers, Sequences, FiniteSets, TLC

(***************************************************************************)
(* Bounds of the model.                                                    *)
(***************************************************************************)
\* number of uuids (job messages) that can be created
MaxJobs == 2
\* largest maxRetry a client asks for
MaxRetryBound == 1
\* number of external (broker / results) calls that fail
MaxFaults == 1
\* number of duplicate deliveries of the at-least-once broker
MaxRedeliver == 1
\* number of malformed messages on the broker at a time
MaxJunk == 1

(***************************************************************************)
(* Program constants.                                                      *)
(***************************************************************************)
defaultConcurrency == 1
DefaultQueue == "tasqueue:tasks"
StatusStarted == "queued"
StatusProcessing == "processing"
StatusFailed == "failed"
StatusDone == "successful"
StatusRetrying == "retrying"
\* key prefixes of the results store
msgPrefix == "msg:"
resultsPrefix == "result:"

(***************************************************************************)
(* Inputs.                                                                 *)
(***************************************************************************)
TaskNames == {"A", "B"}
QueueNames == {DefaultQueue, "q2"}
UUIDs == 1..MaxJobs
\* the empty uuid string
NoUUID == 0

\* a Job: task name, options (queue, max retries) and an optional successor;
\* OnSuccess is <<>> (nil) or <<j>> (pointer to j)
Job(task, queue, retries, onSuccess) ==
    [Task |-> task, Queue |-> queue, MaxRetries |-> retries, OnSuccess |-> onSuccess]

LeafJobs ==
    {Job("A", DefaultQueue, r, <<>>) : r \in 0..MaxRetryBound}
        \cup {Job("B", q, 0, <<>>) : q \in QueueNames}

ChainJobs ==
    {Job("A", DefaultQueue, r, <<Job("B", DefaultQueue, 0, <<>>)>>) : r \in 0..MaxRetryBound}

JobInputs == LeafJobs \cup ChainJobs

RECURSIVE ChainLen(_)
ChainLen(j) == IF j.OnSuccess = <<>> THEN 1 ELSE 1 + ChainLen(j.OnSuccess[1])

\* what one execution of a user handler does: the artifacts it saves through
\* JobCtx.Save, in order, and the error it returns ("" is nil)
HandlerOutcomes ==
    { [saves |-> <<>>, err |-> ""],
      [saves |-> <<"r1", "r2">>, err |-> ""],
      [saves |-> <<>>, err |-> "e1"],
      [saves |-> <<"r1">>, err |-> "e2"] }

VARIABLES
    tasks,        \* s.tasks: task name -> Task
    started,      \* position of Start: "no", "running", "returned"
    cancelled,    \* the root context passed to Start is done
    consumers,    \* pool (task of the Start loop) -> consumer goroutine
    procs,        \* worker goroutine <<pool, i>> -> position in process()
    queues,       \* broker: queue name -> sequence of raw messages
    redeliveries, \* number of duplicate deliveries made
    kv,           \* results store: key -> bytes
    successIdx,   \* results store: success index
    failedIdx,    \* results store: failed index
    nextUUID,     \* next uuid to hand out
    uuidsLeft,    \* uuids not yet reserved by an enqueued chain
    faults,       \* number of failed external calls
    obs           \* observer: per uuid, what the handler executions did

vars == <<tasks, started, cancelled, consumers, procs, queues,
          redeliveries, kv, successIdx, failedIdx, nextUUID, uuidsLeft, faults, obs>>

(***************************************************************************)
(* Codec (msgpack).  A JobMessage is encoded as the sequence of its fields *)
(* in wire order; decoding checks the shape and rebuilds the record.       *)
(***************************************************************************)
NoMsg ==
    [UUID |-> NoUUID, Job |-> Job("", "", 0, <<>>), Status |-> "", Queue |-> "",
     MaxRetry |-> 0, Retried |-> 0, PrevErr |-> "", OnSuccessUUID |-> NoUUID,
     PrevJobResults |-> <<>>]

Marshal(m) ==
    <<m.UUID, m.Job, m.Status, m.Queue, m.MaxRetry, m.Retried, m.PrevErr,
      m.OnSuccessUUID, m.PrevJobResults>>

Unmarshal(b) ==
    IF Len(b) # 9
    THEN [err |-> TRUE, msg |-> NoMsg]
    ELSE [err |-> FALSE,
          msg |-> [UUID |-> b[1], Job |-> b[2], Status |-> b[3], Queue |-> b[4],
                   MaxRetry |-> b[5], Retried |-> b[6], PrevErr |-> b[7],
                   OnSuccessUUID |-> b[8], PrevJobResults |-> b[9]]]

\* the artifacts of a job are stored as a msgpack array of byte strings:
\* a header with the length, then the elements
MarshalResults(rs) == <<"array", Len(rs)>> \o rs

\* msgpack.Unmarshal(b, v): v must be a pointer to the destination; given a
\* non-pointer the library decodes nothing and returns an error
UnmarshalResults(b, isPointer) ==
    IF ~isPointer
    THEN [val |-> <<>>, err |-> "msgpack: Decode(non-pointer)"]
    ELSE IF Len(b) < 2 \/ b[1] # "array" \/ b[2] # Len(b) - 2
    THEN [val |-> <<>>, err |-> "msgpack: invalid code"]
    ELSE [val |-> SubSeq(b, 3, Len(b)), err |-> ""]

(***************************************************************************)
(* Results store and broker.  An operation of the server makes a sequence  *)
(* of external calls; it is evaluated on a record W of the collaborators'  *)
(* state.  W.calls counts the calls made, the failAt-th one fails, and     *)
(* once W.err is set the rest of the operation is skipped (the Go code     *)
(* returns the error).                                                     *)
(***************************************************************************)
Keys == {msgPrefix, resultsPrefix} \X UUIDs
Key(prefix, uuid) == <<prefix, uuid>>
Absent == <<>>

World ==
    [kv |-> kv, queues |-> queues, success |-> successIdx, failed |-> failedIdx,
     next |-> nextUUID, calls |-> 0, err |-> FALSE]

Failed(W) == [W EXCEPT !.calls = @ + 1, !.err = TRUE]

\* Results.Set
resultsSet(W, key, val, failAt) ==
    IF W.err THEN W
    ELSE IF W.calls + 1 = failAt THEN Failed(W)
    ELSE [W EXCEPT !.calls = @ + 1, !.kv[key] = val]

\* Results.SetSuccess
resultsSetSuccess(W, uuid, failAt) ==
    IF W.err THEN W
    ELSE IF W.calls + 1 = failAt THEN Failed(W)
    ELSE [W EXCEPT !.calls = @ + 1, !.success = @ \cup {uuid}]

\* Results.SetFailed
resultsSetFailed(W, uuid, failAt) ==
    IF W.err THEN W
    ELSE IF W.calls + 1 = failAt THEN Failed(W)
    ELSE [W EXCEPT !.calls = @ + 1, !.failed = @ \cup {uuid}]

\* Broker.Enqueue
brokerEnqueue(W, b, queue, failAt) ==
    IF W.err THEN W
    ELSE IF W.calls + 1 = failAt THEN Failed(W)
    ELSE [W EXCEPT !.calls = @ + 1, !.queues[queue] = Append(@, b)]

\* Results.Get
resultsGet(store, key) ==
    IF store[key] = Absent
    THEN [val |-> Absent, err |-> "key not found"]
    ELSE [val |-> store[key], err |-> ""]

(***************************************************************************)
(* Status writes.                                                          *)
(***************************************************************************)
setJobMessage(W, t, failAt) ==
    resultsSet(W, Key(msgPrefix, t.UUID), Marshal(t), failAt)

statusStarted(W, t, failAt) ==
    setJobMessage(W, [t EXCEPT !.Status = StatusStarted], failAt)

statusProcessing(W, t, failAt) ==
    setJobMessage(W, [t EXCEPT !.Status = StatusProcessing], failAt)

\* statusDone writing the state message before the success index
statusDone_StateFirst(W, t, failAt) ==
    resultsSetSuccess(setJobMessage(W, [t EXCEPT !.Status = StatusDone], failAt),
                      t.UUID, failAt)

statusDone(W, t, failAt) ==
    setJobMessage(resultsSetSuccess(W, t.UUID, failAt),
                  [t EXCEPT !.Status = StatusDone], failAt)

statusFailed(W, t, failAt) ==
    setJobMessage(resultsSetFailed(W, t.UUID, failAt),
                  [t EXCEPT !.Status = StatusFailed], failAt)

statusRetrying(W, t, failAt) ==
    setJobMessage(W, [t EXCEPT !.Status = StatusRetrying], failAt)

(***************************************************************************)
(* Enqueue path.                                                           *)
(***************************************************************************)
\* the meta of a new message: a fresh uuid, status queued, counters from opts
DefaultMeta(job, uuid) ==
    [UUID |-> uuid, Status |-> StatusStarted, Queue |-> job.Queue,
     MaxRetry |-> job.MaxRetries, Retried |-> 0, PrevErr |-> "",
     OnSuccessUUID |-> NoUUID, PrevJobResults |-> <<>>]

\* Job.message(meta)
message(job, meta) ==
    [UUID |-> meta.UUID, Job |-> job, Status |-> meta.Status, Queue |-> meta.Queue,
     MaxRetry |-> meta.MaxRetry, Retried |-> meta.Retried, PrevErr |-> meta.PrevErr,
     OnSuccessUUID |-> meta.OnSuccessUUID, PrevJobResults |-> meta.PrevJobResults]

\* the message record is written (queued) before the bytes go to the broker
enqueueWithMeta(W, job, meta, failAt) ==
    LET msg == message(job, meta)
        b == Marshal(msg)
    IN brokerEnqueue(statusStarted(W, msg, failAt), b, msg.Queue, failAt)

(***************************************************************************)
(* Registry.                                                               *)
(***************************************************************************)
EmptyFn == [x \in {} |-> x]

registerHandler(reg, name, t) == (name :> t) @@ reg

getHandler(name) ==
    IF name \in DOMAIN tasks
    THEN [task |-> tasks[name], err |-> FALSE]
    ELSE [task |-> [name |-> "", Concurrency |-> 0, Queue |-> ""], err |-> TRUE]

(***************************************************************************)
(* Job execution.                                                          *)
(***************************************************************************)
\* msg.Meta
MetaOf(msg) ==
    [UUID |-> msg.UUID, Status |-> msg.Status, Queue |-> msg.Queue,
     MaxRetry |-> msg.MaxRetry, Retried |-> msg.Retried, PrevErr |-> msg.PrevErr,
     OnSuccessUUID |-> msg.OnSuccessUUID, PrevJobResults |-> msg.PrevJobResults]

\* JobCtx.Save, as many times as the handler calls it: each call appends to
\* the results of the JobCtx it is called on and stores the list
Save(W, ctx, saves) ==
    IF saves = <<>> THEN W
    ELSE [W EXCEPT !.kv[Key(resultsPrefix, ctx.Meta.UUID)] =
                        MarshalResults(ctx.results \o saves)]

\* task.handler(msg.Job.Payload, taskCtx): handler is func([]byte, JobCtx) error,
\* so the handler works on a copy of taskCtx; what it appends to the copy's
\* results does not reach the caller's taskCtx
handlerCall(taskCtx, out) ==
    [err |-> out.err,
     callee |-> [taskCtx EXCEPT !.results = @ \o out.saves],
     caller |-> taskCtx]

\* retryJob re-enqueueing the message without the error of the execution
retryJob_DropPrevErr(W, msg, failAt) ==
    LET m == [msg EXCEPT !.Retried = @ + 1]
        b == Marshal([m EXCEPT !.PrevErr = ""])
    IN brokerEnqueue(statusRetrying(W, m, failAt), b, m.Queue, failAt)

\* retryJob enqueueing the message before it writes 'retrying'
retryJob_EnqueueFirst(W, msg, failAt) ==
    LET m == [msg EXCEPT !.Retried = @ + 1]
        b == Marshal(m)
    IN statusRetrying(brokerEnqueue(W, b, m.Queue, failAt), m, failAt)

\* retryJob without the increment of Retried
retryJob_NoIncrement(W, msg, failAt) ==
    LET b == Marshal(msg)
    IN brokerEnqueue(statusRetrying(W, msg, failAt), b, msg.Queue, failAt)

retryJob(W, msg, failAt) ==
    LET m == [msg EXCEPT !.Retried = @ + 1]
        b == Marshal(m)
    IN brokerEnqueue(statusRetrying(W, m, failAt), b, m.Queue, failAt)

\* the retry test letting a job with retried = maxRetry retry once more
shouldRetry_LessEq(msg) == msg.Retried <= msg.MaxRetry

\* the retry test off by one
shouldRetry_OffByOne(msg) == msg.Retried + 1 < msg.MaxRetry

\* whether execJob takes the retry branch
shouldRetry(msg) == msg.MaxRetry # msg.Retried

\* the chain continuation marking the parent done before it returns the
\* error of the enqueue
continueChain_IgnoreEnqueueError(W, msg, taskCtx, failAt) ==
    LET nj == msg.Job.OnSuccess[1]
        meta == [DefaultMeta(nj, W.next) EXCEPT !.PrevJobResults = taskCtx.results]
        W1 == enqueueWithMeta([W EXCEPT !.next = @ + 1], nj, meta, failAt)
        W2 == statusDone([W1 EXCEPT !.err = FALSE],
                         [msg EXCEPT !.OnSuccessUUID = meta.UUID], failAt)
    IN [W2 EXCEPT !.err = @ \/ W1.err]

\* the chain continuation dropping the uuid the enqueue returned
continueChain_DropUUID(W, msg, taskCtx, failAt) ==
    LET nj == msg.Job.OnSuccess[1]
        meta == [DefaultMeta(nj, W.next) EXCEPT !.PrevJobResults = taskCtx.results]
        W1 == enqueueWithMeta([W EXCEPT !.next = @ + 1], nj, meta, failAt)
    IN statusDone(W1, msg, failAt)

\* the chain continuation of execJob: enqueue the successor, record its uuid
\* in the parent message, then mark the parent done
continueChain(W, msg, taskCtx, failAt) ==
    LET nj == msg.Job.OnSuccess[1]
        meta == [DefaultMeta(nj, W.next) EXCEPT !.PrevJobResults = taskCtx.results]
        W1 == enqueueWithMeta([W EXCEPT !.next = @ + 1], nj, meta, failAt)
    IN statusDone(W1, [msg EXCEPT !.OnSuccessUUID = meta.UUID], failAt)

execJob(W, msg, out, failAt) ==
    LET taskCtx == [Meta |-> MetaOf(msg), results |-> <<>>]
        hc == handlerCall(taskCtx, out)
        W1 == Save(W, taskCtx, out.saves)
    IN IF hc.err # ""
       THEN LET m == [msg EXCEPT !.PrevErr = hc.err]
            IN IF shouldRetry(m)
               THEN retryJob(W1, m, failAt)
               ELSE statusFailed(W1, m, failAt)
       ELSE IF msg.Job.OnSuccess # <<>>
            THEN continueChain(W1, msg, hc.caller, failAt)
            ELSE statusDone(W1, msg, failAt)

\* the dispatch loop going on to execJob after a failed 'processing' write
process_IgnoreStatusError(W, work, failAt) ==
    LET d == Unmarshal(work)
        h == getHandler(d.msg.Job.Task)
        W1 == statusProcessing(W, d.msg, failAt)
    IN IF d.err \/ h.err
       THEN [W |-> W, run |-> FALSE, msg |-> NoMsg, task |-> ""]
       ELSE [W |-> W1, run |-> TRUE, msg |-> d.msg, task |-> h.task.name]

\* the dispatch loop writing 'processing' before it looks the handler up
process_StatusBeforeLookup(W, work, failAt) ==
    LET d == Unmarshal(work)
        h == getHandler(d.msg.Job.Task)
        W1 == statusProcessing(W, d.msg, failAt)
    IN IF d.err
       THEN [W |-> W, run |-> FALSE, msg |-> NoMsg, task |-> ""]
       ELSE IF h.err \/ W1.err
       THEN [W |-> W1, run |-> FALSE, msg |-> NoMsg, task |-> ""]
       ELSE [W |-> W1, run |-> TRUE, msg |-> d.msg, task |-> h.task.name]

\* one iteration of the dispatch loop of process(), up to the call of execJob
process(W, work, failAt) ==
    LET d == Unmarshal(work)
        h == getHandler(d.msg.Job.Task)
        W1 == statusProcessing(W, d.msg, failAt)
    IN IF d.err \/ h.err \/ W1.err
       THEN [W |-> IF d.err \/ h.err THEN W ELSE W1, run |-> FALSE,
             msg |-> NoMsg, task |-> ""]
       ELSE [W |-> W1, run |-> TRUE, msg |-> d.msg, task |-> h.task.name]

\* Server.GetResult
GetResult(store, uuid) ==
    LET g == resultsGet(store, Key(resultsPrefix, uuid))
        d == UnmarshalResults(g.val, FALSE)
    IN IF g.err # "" THEN [val |-> <<>>, err |-> g.err]
       ELSE IF d.err # "" THEN [val |-> <<>>, err |-> d.err]
       ELSE [val |-> d.val, err |-> ""]

\* Server.GetSuccess, Server.GetFailed
GetSuccess == successIdx
GetFailed == failedIdx

\* the persisted state message of a uuid (GetJob)
HasJob(uuid) == kv[Key(msgPrefix, uuid)] # Absent
GetJob(uuid) == Unmarshal(kv[Key(msgPrefix, uuid)]).msg

(***************************************************************************)
(* State machine.                                                          *)
(***************************************************************************)
\* what RegisterTask is called with: name, opts.Concurrency, opts.Queue
TaskInputs ==
    { <<"A", 0, "">>, <<"B", 2, "">>, <<"B", 0, "q2">> }

\* observer of a uuid: the number of handler executions and of those that
\* returned an error, the error ("" is nil) and the artifacts of the last
\* one, whether an external call failed while the uuid was enqueued or
\* processed, the uuids its successor enqueues returned, whether a successor
\* enqueue failed, for a successor its parent and the artifacts the
\* parent's handler saved in the execution that enqueued it, the error of
\* the last execution that returned one, and the failed call (if any) at
\* which a worker gave its message up: "processing" (the 'processing'
\* write), "requeue" (the re-enqueue of a retry), "chain" (the successor
\* enqueue) or "status" (another status or index write)
NoObs ==
    [execs |-> 0, fails |-> 0, lastErr |-> "", lastSaves |-> <<>>, fault |-> FALSE,
     succ |-> {}, succFailed |-> FALSE, parent |-> NoUUID, parentSaves |-> <<>>,
     lastFail |-> "", abort |-> ""]

\* the observer's counters saturate above every value a job can reach
ExecCap == MaxRetryBound + MaxRedeliver + 2
Count(n) == IF n < ExecCap THEN n + 1 ELSE ExecCap

Idle == [pc |-> "select", msg |-> NoMsg, task |-> ""]

\* a break that leaves the for loop, and process() with it
afterBreak_LeavesLoop == [pc |-> "done", msg |-> NoMsg, task |-> ""]

\* where a worker is after a break in the body of case work := <-w: the
\* break leaves the select, and the for loop goes round to the select again
afterBreak == Idle

Commit(W) ==
    /\ kv' = W.kv
    /\ queues' = W.queues
    /\ successIdx' = W.success
    /\ failedIdx' = W.failed
    /\ nextUUID' = W.next

Init ==
    /\ tasks = EmptyFn
    /\ started = "no"
    /\ cancelled = FALSE
    /\ consumers = EmptyFn
    /\ procs = EmptyFn
    /\ queues = [q \in QueueNames |-> <<>>]
    /\ redeliveries = 0
    /\ kv = [k \in Keys |-> Absent]
    /\ successIdx = {}
    /\ failedIdx = {}
    /\ nextUUID = 1
    /\ uuidsLeft = MaxJobs
    /\ faults = 0
    /\ obs = [u \in UUIDs |-> NoObs]

\* Server.RegisterTask
RegisterTask(name, concurrency, queue) ==
    /\ LET c == IF concurrency <= 0 THEN defaultConcurrency ELSE concurrency
           q == IF queue = "" THEN DefaultQueue ELSE queue
       IN tasks' = registerHandler(tasks, name,
                                   [name |-> name, Concurrency |-> c, Queue |-> q])
    /\ UNCHANGED <<started, cancelled, consumers, procs, queues, redeliveries, kv,
                   successIdx, failedIdx, nextUUID, uuidsLeft, faults, obs>>

\* Server.Start up to wg.Wait(): for each registered task one consumer on the
\* task's queue and Concurrency workers on the same work channel
Start ==
    /\ started = "no"
    /\ started' = "running"
    /\ consumers' = [t \in DOMAIN tasks |->
                        [Queue |-> tasks[t].Queue, Concurrency |-> tasks[t].Concurrency,
                         state |-> "run"]]
    /\ procs' = [w \in UNION {{<<t, i>> : i \in 1..tasks[t].Concurrency} : t \in DOMAIN tasks}
                    |-> Idle]
    /\ UNCHANGED <<tasks, cancelled, queues, redeliveries, kv, successIdx,
                   failedIdx, nextUUID, uuidsLeft, faults, obs>>

\* Start returning without waiting for its goroutines
StartReturn_NoWait ==
    /\ started = "running"
    /\ started' = "returned"
    /\ UNCHANGED <<tasks, cancelled, consumers, procs, queues, redeliveries, kv,
                   successIdx, failedIdx, nextUUID, uuidsLeft, faults, obs>>

\* wg.Wait() returns, and Start with it
StartReturn ==
    /\ started = "running"
    /\ \A t \in DOMAIN consumers : consumers[t].state = "done"
    /\ \A w \in DOMAIN procs : procs[w].pc = "done"
    /\ started' = "returned"
    /\ UNCHANGED <<tasks, cancelled, consumers, procs, queues, redeliveries, kv,
                   successIdx, failedIdx, nextUUID, uuidsLeft, faults, obs>>

\* the root context is cancelled
Cancel ==
    /\ ~cancelled
    /\ cancelled' = TRUE
    /\ UNCHANGED <<tasks, started, consumers, procs, queues, redeliveries, kv,
                   successIdx, failedIdx, nextUUID, uuidsLeft, faults, obs>>

\* Server.Enqueue by a client
Enqueue(job, failAt) ==
    /\ ChainLen(job) <= uuidsLeft
    /\ uuidsLeft' = uuidsLeft - ChainLen(job)
    /\ LET meta == DefaultMeta(job, nextUUID)
           W == enqueueWithMeta([World EXCEPT !.next = @ + 1], job, meta, failAt)
       IN /\ failAt = 0 \/ (faults < MaxFaults /\ W.err)
          /\ faults' = IF W.err THEN faults + 1 ELSE faults
          /\ obs' = [obs EXCEPT ![meta.UUID].fault = W.err]
          /\ Commit(W)
    /\ UNCHANGED <<tasks, started, cancelled, consumers, procs, redeliveries>>

\* broker.Consume of the worker's pool hands the head of the queue to the
\* work channel and worker w receives it in its select; the worker runs the
\* dispatch loop up to the call of the handler.  ack: the broker removes the
\* message from the queue (otherwise it will deliver it again)
Deliver(w, failAt, ack) ==
    /\ w \in DOMAIN procs
    /\ procs[w].pc = "select"
    /\ consumers[w[1]].state = "run"
    /\ LET q == consumers[w[1]].Queue
       IN /\ queues[q] # <<>>
          /\ LET work == Head(queues[q])
                 d == Unmarshal(work)
                 extra == IF d.err THEN 0 ELSE ChainLen(d.msg.Job) - 1
                 W0 == IF ack THEN [World EXCEPT !.queues[q] = Tail(@)] ELSE World
                 r == process(W0, work, failAt)
             IN /\ ack \/ (redeliveries < MaxRedeliver /\ extra <= uuidsLeft)
                /\ redeliveries' = IF ack THEN redeliveries ELSE redeliveries + 1
                /\ uuidsLeft' = IF ack THEN uuidsLeft ELSE uuidsLeft - extra
                /\ failAt = 0 \/ (faults < MaxFaults /\ r.W.err)
                /\ faults' = IF r.W.err THEN faults + 1 ELSE faults
                /\ obs' = IF r.W.err
                          THEN [obs EXCEPT ![d.msg.UUID].fault = TRUE,
                                           ![d.msg.UUID].abort = "processing"]
                          ELSE obs
                /\ procs' = [procs EXCEPT ![w] =
                                IF r.run
                                THEN [pc |-> "handler", msg |-> r.msg, task |-> r.task]
                                ELSE afterBreak]
                /\ Commit(r.W)
    /\ UNCHANGED <<tasks, started, cancelled, consumers>>

\* case work := <-w of process(), the message being delivered once
ProcessWork(w, failAt) == Deliver(w, failAt, TRUE)

\* the same, the broker delivering the message again later
Redeliver(w, failAt) == Deliver(w, failAt, FALSE)

\* the handler of worker w returns and execJob runs to its end
ExecJob(w, out, failAt) ==
    /\ w \in DOMAIN procs
    /\ procs[w].pc = "handler"
    /\ LET msg == procs[w].msg
           u == msg.UUID
           s == nextUUID
           W == execJob(World, msg, out, failAt)
           chained == out.err = "" /\ msg.Job.OnSuccess # <<>>
           enqFailed == chained /\ failAt \in 1..2
           retried == out.err # "" /\ shouldRetry(msg)
           mine == [obs[u] EXCEPT
                       !.execs = Count(@),
                       !.fails = IF out.err # "" THEN Count(@) ELSE @,
                       !.lastErr = out.err,
                       !.lastFail = IF out.err # "" THEN out.err ELSE @,
                       !.abort = IF ~W.err THEN @
                                 ELSE IF enqFailed THEN "chain"
                                 ELSE IF retried /\ failAt = 2 THEN "requeue"
                                 ELSE "status",
                       !.lastSaves = out.saves,
                       !.fault = @ \/ W.err,
                       !.succ = IF chained /\ ~enqFailed THEN @ \cup {s} ELSE @,
                       !.succFailed = @ \/ enqFailed]
       IN /\ failAt = 0 \/ (faults < MaxFaults /\ W.err)
          /\ faults' = IF W.err THEN faults + 1 ELSE faults
          /\ obs' = IF chained
                    THEN [obs EXCEPT ![u] = mine,
                                     ![s] = [@ EXCEPT !.parent = u,
                                                      !.parentSaves = out.saves,
                                                      !.fault = enqFailed]]
                    ELSE [obs EXCEPT ![u] = mine]
          /\ Commit(W)
    /\ procs' = [procs EXCEPT ![w] = Idle]
    /\ UNCHANGED <<tasks, started, cancelled, consumers, redeliveries, uuidsLeft>>

\* case <-ctx.Done() of process(): the worker returns
ProcessDone(w) ==
    /\ w \in DOMAIN procs
    /\ procs[w].pc = "select"
    /\ cancelled
    /\ procs' = [procs EXCEPT ![w] = [Idle EXCEPT !.pc = "done"]]
    /\ UNCHANGED <<tasks, started, cancelled, consumers, queues, redeliveries, kv,
                   successIdx, failedIdx, nextUUID, uuidsLeft, faults, obs>>

\* broker.Consume returns on cancellation, and consume() with it
ConsumeReturn(t) ==
    /\ t \in DOMAIN consumers
    /\ consumers[t].state = "run"
    /\ cancelled
    /\ consumers' = [consumers EXCEPT ![t].state = "done"]
    /\ UNCHANGED <<tasks, started, cancelled, procs, queues, redeliveries, kv,
                   successIdx, failedIdx, nextUUID, uuidsLeft, faults, obs>>

Workers == TaskNames \X (1..2)
\* which external call of an operation fails (0: none)
FailPoints == 0..4

\* the steps of the server and of its clients, the failing calls drawn from FP.
\* Clients register their tasks before Start and enqueue while it runs.
NextWith(FP) ==
    \/ \E in \in TaskInputs : started = "no" /\ RegisterTask(in[1], in[2], in[3])
    \/ Start
    \/ StartReturn
    \/ started # "no" /\ Cancel
    \/ \E job \in JobInputs, failAt \in FP :
          started = "running" /\ Enqueue(job, failAt)
    \/ \E w \in Workers, failAt \in FP : ProcessWork(w, failAt)
    \/ \E w \in Workers, out \in HandlerOutcomes, failAt \in FP :
          ExecJob(w, out, failAt)
    \/ \E w \in Workers : ProcessDone(w)
    \/ \E t \in TaskNames : ConsumeReturn(t)

Next == NextWith(FailPoints)

\* the server with a broker that delivers every message once
Spec == Init /\ [][Next]_vars

\* the steps of the server, every external call succeeding
NextReliable == NextWith({0})

NextAtLeastOnce ==
    \/ NextReliable
    \/ \E w \in Workers : Redeliver(w, 0)

\* the server with an at-least-once broker, the other calls succeeding
SpecAtLeastOnce == Init /\ [][NextAtLeastOnce]_vars

\* a step of a goroutine Start waits for, or of Start itself
Progress ==
    \/ StartReturn
    \/ \E w \in Workers : ProcessDone(w)
    \/ \E w \in Workers, out \in HandlerOutcomes : ExecJob(w, out, 0)
    \/ \E t \in TaskNames : ConsumeReturn(t)

\* the server with collaborators whose calls succeed, under the scheduling
\* shutdown relies on: a running handler returns, broker.Consume
\* returns once the context is done, a worker whose select has the Done case
\* ready ends up taking it, and wg.Wait returns once the counter is zero
FairSpec == Init /\ [][NextReliable]_vars /\ WF_vars(Progress)

\* the error a handler returns when it honors the cancelled context
ErrCanceled == "context canceled"
CanceledOutcome == [saves |-> <<>>, err |-> ErrCanceled]

\* the handler of worker w returns the context's error after the cancellation
HandlerCancelled(w) == cancelled /\ ExecJob(w, CanceledOutcome, 0)

NextCancel ==
    \/ NextReliable
    \/ \E w \in Workers : HandlerCancelled(w)

\* the server with handlers that return ctx.Err() once the context is done
SpecCancel == Init /\ [][NextCancel]_vars

\* bytes that are not the encoding of a JobMessage
Junk == <<"junk">>

\* the number of malformed messages on the broker
RECURSIVE JunkIn(_)
JunkIn(q) ==
    IF q = <<>> THEN 0
    ELSE (IF Unmarshal(Head(q)).err THEN 1 ELSE 0) + JunkIn(Tail(q))

\* another producer puts bytes on a queue of the broker
Inject(q) ==
    /\ started = "running"
    /\ JunkIn(queues[DefaultQueue]) + JunkIn(queues["q2"]) < MaxJunk
    /\ queues' = [queues EXCEPT ![q] = Append(@, Junk)]
    /\ UNCHANGED <<tasks, started, cancelled, consumers, procs, redeliveries, kv,
                   successIdx, failedIdx, nextUUID, uuidsLeft, faults, obs>>

NextForeign ==
    \/ NextReliable
    \/ \E q \in QueueNames : Inject(q)

\* the server on a broker that other producers write to
SpecForeign == Init /\ [][NextForeign]_vars

(***************************************************************************)
(* Start step by step, for a client that registers tasks while it runs.    *)
(* started is then "ranging" while Start is in its loop over the task map, *)
(* and "crashed" after the runtime has stopped the program.                *)
(***************************************************************************)
\* s.p.RLock(); tasks := s.tasks; s.p.RUnlock(): the local is the map itself,
\* not a copy.  The entries the range loop has to visit are marked pending
StartLoad ==
    /\ started = "no"
    /\ started' = "ranging"
    /\ consumers' = [t \in DOMAIN tasks |->
                        [Queue |-> "", Concurrency |-> 0, state |-> "pending"]]
    /\ UNCHANGED <<tasks, cancelled, procs, queues, redeliveries, kv, successIdx,
                   failedIdx, nextUUID, uuidsLeft, faults, obs>>

\* one iteration of the range loop, outside the lock: it reads the entry of
\* t as it is now and starts t's consumer and workers.  An entry added
\* during the loop may be produced by the iteration too
StartIter(t) ==
    /\ started = "ranging"
    /\ t \in DOMAIN tasks
    /\ t \in DOMAIN consumers => consumers[t].state = "pending"
    /\ consumers' = (t :> [Queue |-> tasks[t].Queue,
                           Concurrency |-> tasks[t].Concurrency,
                           state |-> "run"]) @@ consumers
    /\ procs' = [w \in {<<t, i>> : i \in 1..tasks[t].Concurrency} |-> Idle] @@ procs
    /\ UNCHANGED <<tasks, started, cancelled, queues, redeliveries, kv, successIdx,
                   failedIdx, nextUUID, uuidsLeft, faults, obs>>

\* the range loop ends (an entry added during the loop may have been
\* skipped) and Start goes to wg.Wait()
StartLoopEnd ==
    /\ started = "ranging"
    /\ \A t \in DOMAIN consumers : consumers[t].state # "pending"
    /\ started' = "running"
    /\ UNCHANGED <<tasks, cancelled, consumers, procs, queues, redeliveries, kv,
                   successIdx, failedIdx, nextUUID, uuidsLeft, faults, obs>>

\* RegisterTask while Start ranges over the map: the write is made under the
\* lock, which the loop does not hold.  The write goes through, or the
\* runtime detects the concurrent iteration and write and stops the program
RegisterDuringRange(name, concurrency, queue) ==
    /\ started = "ranging"
    /\ \/ RegisterTask(name, concurrency, queue)
       \/ /\ started' = "crashed"
          /\ UNCHANGED <<tasks, cancelled, consumers, procs, queues, redeliveries,
                         kv, successIdx, failedIdx, nextUUID, uuidsLeft, faults, obs>>

NextRegistry ==
    /\ started # "crashed"
    /\ \/ \E in \in TaskInputs :
             started \in {"no", "running"} /\ RegisterTask(in[1], in[2], in[3])
       \/ \E in \in TaskInputs : RegisterDuringRange(in[1], in[2], in[3])
       \/ StartLoad
       \/ \E t \in TaskNames : StartIter(t)
       \/ StartLoopEnd
       \/ StartReturn
       \/ started # "no" /\ Cancel
       \/ \E job \in JobInputs : started = "running" /\ Enqueue(job, 0)
       \/ \E w \in Workers : ProcessWork(w, 0)
       \/ \E w \in Workers, out \in HandlerOutcomes : ExecJob(w, out, 0)
       \/ \E w \in Workers : ProcessDone(w)
       \/ \E t \in TaskNames : ConsumeReturn(t)

\* the server with a client that may register tasks at any time
SpecRegistry == Init /\ [][NextRegistry]_vars

(***************************************************************************)
(* Properties.                                                             *)
(***************************************************************************)
\* the uuids of the messages on the broker
Queued ==
    {Unmarshal(queues[q][i]).msg.UUID : <<q, i>> \in
        UNION {{<<q, i>> : i \in 1..Len(queues[q])} : q \in QueueNames}}

\* a message of the uuid is on the broker or in the hands of a worker
InFlight(u) ==
    \/ u \in Queued
    \/ \E w \in DOMAIN procs : procs[w].pc = "handler" /\ procs[w].msg.UUID = u

\* the job was enqueued and no message of it is left to process
Final(u) == HasJob(u) /\ ~InFlight(u)

\* the workers running the handler of task t
Active(t) == {w \in DOMAIN procs : procs[w].pc = "handler" /\ procs[w].task = t}

\* C1: a job with maxRetry = N whose handler errs on every execution, no
\* results or broker call failing, is executed at most N+1 times, and once no
\* message of it is left it was executed exactly N+1 times, its record is
\* 'failed' with retried = N and prev_err the error of the last execution,
\* and its uuid is in the failed index.
C1_ExhaustedRetries ==
    \A u \in UUIDs :
        LET o == obs[u]
            m == GetJob(u)
            N == m.Job.MaxRetries
        IN (HasJob(u) /\ ~o.fault /\ o.execs > 0 /\ o.fails = o.execs) =>
              /\ o.execs <= N + 1
              /\ Final(u) =>
                    /\ o.execs = N + 1
                    /\ m.Status = StatusFailed
                    /\ m.Retried = N
                    /\ m.PrevErr = o.lastErr
                    /\ u \in GetFailed

C1_Witness ==
    \E u \in UUIDs :
        /\ Final(u) /\ ~obs[u].fault
        /\ obs[u].execs = 2 /\ obs[u].fails = 2
        /\ GetJob(u).Job.MaxRetries = 1
        /\ GetJob(u).Status = StatusFailed

\* C2: a job whose handler fails on its first k executions and then returns
\* nil, no results or broker call failing, ends with a 'successful' record
\* with retried = k, its uuid in the success index and not in the failed
\* index (and k <= maxRetry).
C2_RetryThenSucceed ==
    \A u \in UUIDs :
        LET o == obs[u]
            m == GetJob(u)
        IN (Final(u) /\ ~o.fault /\ o.execs > 0 /\ o.lastErr = "") =>
              /\ m.Status = StatusDone
              /\ m.Retried = o.fails
              /\ o.fails <= m.Job.MaxRetries
              /\ o.execs = o.fails + 1
              /\ u \in GetSuccess
              /\ u \notin GetFailed

C2_Witness ==
    \E u \in UUIDs :
        /\ Final(u) /\ ~obs[u].fault
        /\ obs[u].fails = 1 /\ obs[u].execs = 2 /\ obs[u].lastErr = ""
        /\ GetJob(u).Status = StatusDone

\* C3: for a task that Start gave a pool of c workers, at most c executions
\* of the task's handler are active at any instant.
C3_ConcurrencyBound ==
    \A t \in DOMAIN consumers : Cardinality(Active(t)) <= consumers[t].Concurrency

\* C4: the successor of a chain is enqueued with meta.prevJobResults equal to
\* the artifacts the parent's handler saved in the execution that enqueued it.
C4_PrevJobResults ==
    \A s \in UUIDs :
        (obs[s].parent # NoUUID /\ HasJob(s)) =>
            GetJob(s).PrevJobResults = obs[s].parentSaves

\* C5: a successor exists only once the parent's handler has returned nil; a
\* parent with a successor is marked 'successful' only with the successor
\* enqueued; and a parent whose successor enqueue failed keeps the status
\* 'processing' and is in neither index.
C5_SuccessorBeforeDone ==
    \A u \in UUIDs :
        LET o == obs[u]
            m == GetJob(u)
        IN /\ (o.parent # NoUUID /\ (HasJob(u) \/ u \in Queued)) =>
                  obs[o.parent].execs > 0 /\ obs[o.parent].lastErr = ""
           /\ (HasJob(u) /\ m.Status = StatusDone /\ m.Job.OnSuccess # <<>>) =>
                  o.succ # {} /\ \A s \in o.succ : HasJob(s)
           /\ o.succFailed =>
                  /\ m.Status = StatusProcessing
                  /\ u \notin GetSuccess
                  /\ u \notin GetFailed

C5_Witness ==
    \E u \in UUIDs : obs[u].succFailed /\ GetJob(u).Status = StatusProcessing

\* C6: the 'successful' record of a parent with a successor carries in
\* on_success_uuid the uuid the successor's enqueue returned, which is the
\* uuid of the successor's own record; every other record of a job, and
\* every message on the broker, has an empty on_success_uuid.
C6_OnSuccessUUID ==
    /\ \A u \in UUIDs :
          HasJob(u) =>
             LET m == GetJob(u)
                 s == m.OnSuccessUUID
             IN IF m.Status = StatusDone /\ m.Job.OnSuccess # <<>>
                THEN /\ s \in obs[u].succ
                     /\ HasJob(s)
                     /\ GetJob(s).UUID = s
                     /\ GetJob(s).Job = m.Job.OnSuccess[1]
                     /\ obs[s].parent = u
                ELSE s = NoUUID
    /\ \A q \in QueueNames : \A i \in 1..Len(queues[q]) :
          Unmarshal(queues[q][i]).msg.OnSuccessUUID = NoUUID

C6_Witness ==
    \E u \in UUIDs :
        /\ HasJob(u)
        /\ GetJob(u).Status = StatusDone
        /\ GetJob(u).OnSuccessUUID # NoUUID

\* C7: GetResult of a job whose handler returned nil returns, without error,
\* the artifacts the handler saved, in order (none: an empty sequence).
C7_GetResult ==
    \A u \in UUIDs :
        (obs[u].execs > 0 /\ obs[u].lastErr = "" /\ obs[u].fails = 0) =>
            GetResult(kv, u) = [val |-> obs[u].lastSaves, err |-> ""]

\* C8: once the record of a uuid is 'successful' or 'failed', no step writes
\* the record of that uuid again.
C8_TerminalIsFinal ==
    [][\A u \in UUIDs :
          (HasJob(u) /\ GetJob(u).Status \in {StatusDone, StatusFailed}) =>
              kv'[Key(msgPrefix, u)] = kv[Key(msgPrefix, u)]]_vars

\* C9: once the root context is cancelled, no worker waiting in its select
\* goes on to run a handler.
C9_NoPickupAfterCancel ==
    [][\A w \in DOMAIN procs :
          (cancelled /\ procs[w].pc = "select") => procs'[w].pc # "handler"]_vars

\* all the goroutines Start started have returned
AllReturned ==
    /\ \A t \in DOMAIN consumers : consumers[t].state = "done"
    /\ \A w \in DOMAIN procs : procs[w].pc = "done"

\* C10: after the root context is cancelled Start eventually returns, and it
\* has not returned while a consumer or a worker it started is running.
C10_StartTerminates ==
    /\ (cancelled ~> started = "returned")
    /\ [](started = "returned" => AllReturned)

C10_Witness ==
    /\ started = "returned"
    /\ Cardinality(DOMAIN procs) >= 2
    /\ \E u \in UUIDs : obs[u].execs > 0

\* C11: when the handler of a job returns the cancellation error, the step
\* writes no record for the job, enqueues nothing and leaves the failed
\* index alone.
C11_CancelNoTransition ==
    [][\A w \in DOMAIN procs :
          (/\ procs[w].pc = "handler"
           /\ procs'[w].pc = "select"
           /\ obs'[procs[w].msg.UUID].lastErr = ErrCanceled) =>
              /\ kv'[Key(msgPrefix, procs[w].msg.UUID)] = kv[Key(msgPrefix, procs[w].msg.UUID)]
              /\ queues' = queues
              /\ failedIdx' = failedIdx]_vars

\* the worker cannot process these bytes: they do not decode, or they name a
\* task that is not registered
Undeliverable(work) ==
    \/ Unmarshal(work).err
    \/ Unmarshal(work).msg.Job.Task \notin DOMAIN tasks

\* C12: a step in which a worker takes from a queue a message that does not
\* decode or whose task is not registered changes nothing else: no record, no
\* index, no other queue (nothing is re-enqueued), and the worker does not go
\* on to the handler.
C12_UnknownDropped ==
    [][\A q \in QueueNames :
          (/\ queues[q] # <<>>
           /\ queues'[q] = Tail(queues[q])
           /\ Undeliverable(Head(queues[q]))) =>
              /\ kv' = kv
              /\ successIdx' = successIdx
              /\ failedIdx' = failedIdx
              /\ procs' = procs
              /\ obs' = obs
              /\ \A q2 \in QueueNames \ {q} : queues'[q2] = queues[q2]]_vars

C12_Witness ==
    \E u \in UUIDs :
        /\ HasJob(u)
        /\ GetJob(u).Job.Task \notin DOMAIN tasks
        /\ \E t \in DOMAIN consumers : consumers[t].Queue = GetJob(u).Queue
        /\ GetJob(u).Status = StatusStarted
        /\ ~InFlight(u)

\* C13: a uuid whose record is 'successful' is in the success index and a
\* uuid whose record is 'failed' is in the failed index, also when a results
\* call fails between the two writes.
C13_IndexBeforeState ==
    \A u \in UUIDs :
        HasJob(u) =>
            /\ GetJob(u).Status = StatusDone => u \in GetSuccess
            /\ GetJob(u).Status = StatusFailed => u \in GetFailed

C13_Witness ==
    /\ \E u \in UUIDs :
          HasJob(u) /\ GetJob(u).Status = StatusFailed /\ u \in GetFailed
    /\ \E v \in UUIDs :
          HasJob(v) /\ v \in GetSuccess /\ GetJob(v).Status # StatusDone

\* C14: every message on the broker that is a retry (retried > 0) is on the
\* queue of its job and has a 'retrying' record with the same retried and
\* the same, non-empty, prev_err; a job whose record is 'retrying' with no
\* message on the broker lost it to a failed call, and is not executing; and
\* after a failed re-enqueue the record stays 'retrying', with the
\* incremented retried and the new prev_err, and no message of the job is on
\* the broker or with a worker.
C14_RetryingBeforeRequeue ==
    /\ \A q \in QueueNames : \A i \in 1..Len(queues[q]) :
          LET m == Unmarshal(queues[q][i]).msg
              rec == GetJob(m.UUID)
          IN m.Retried > 0 =>
                /\ m.Queue = q
                /\ HasJob(m.UUID)
                /\ rec.Status = StatusRetrying
                /\ rec.Retried = m.Retried
                /\ rec.PrevErr = m.PrevErr
                /\ m.PrevErr # ""
    /\ \A u \in UUIDs :
          /\ (HasJob(u) /\ GetJob(u).Status = StatusRetrying /\ u \notin Queued) =>
                 obs[u].fault /\ ~InFlight(u)
          /\ obs[u].abort = "requeue" =>
                 /\ HasJob(u)
                 /\ GetJob(u).Status = StatusRetrying
                 /\ GetJob(u).Retried = obs[u].execs
                 /\ GetJob(u).PrevErr = obs[u].lastErr
                 /\ ~InFlight(u)

\* a re-enqueue failed while the retry of another job is on the broker
C14_Witness ==
    \E u \in UUIDs :
        /\ obs[u].abort = "requeue"
        /\ GetJob(u).Status = StatusRetrying
        /\ \E v \in UUIDs :
              v \in Queued /\ GetJob(v).Status = StatusRetrying /\ GetJob(v).Retried = 1

\* C15: retried <= maxRetry in every record, in every message on the broker
\* and in every message a worker holds; no step lowers the retried of a
\* record or changes its uuid, queue or maxRetry; and a worker whose handler
\* failed enqueues nothing but the message it holds, on the message's queue,
\* with retried one greater (and the error as prev_err).
C15_RetriedBounded ==
    /\ [](/\ \A u \in UUIDs :
                HasJob(u) => GetJob(u).Retried <= GetJob(u).MaxRetry
          /\ \A q \in QueueNames : \A i \in 1..Len(queues[q]) :
                Unmarshal(queues[q][i]).msg.Retried <= Unmarshal(queues[q][i]).msg.MaxRetry
          /\ \A w \in DOMAIN procs : procs[w].msg.Retried <= procs[w].msg.MaxRetry)
    /\ [][/\ \A u \in UUIDs :
                HasJob(u) =>
                   LET old == GetJob(u)
                       new == Unmarshal(kv'[Key(msgPrefix, u)]).msg
                   IN /\ new.UUID = u
                      /\ new.Retried >= old.Retried
                      /\ new.MaxRetry = old.MaxRetry
                      /\ new.Queue = old.Queue
          /\ \A w \in DOMAIN procs :
                LET msg == procs[w].msg
                IN (/\ procs[w].pc = "handler"
                    /\ procs'[w].pc = "select"
                    /\ obs'[msg.UUID].lastErr # ""
                    /\ queues' # queues) =>
                       queues' = [queues EXCEPT ![msg.Queue] =
                                     Append(@, Marshal([msg EXCEPT
                                         !.Retried = @ + 1,
                                         !.PrevErr = obs'[msg.UUID].lastErr]))]]_vars

C15_Witness ==
    \E q \in QueueNames : \E i \in 1..Len(queues[q]) :
        LET m == Unmarshal(queues[q][i]).msg
        IN /\ m.Retried = m.MaxRetry
           /\ m.Retried > 0
           /\ GetJob(m.UUID).Retried = m.Retried
           /\ obs[m.UUID].execs = m.Retried

\* C16: once Start has started its goroutines, every queue of a registered
\* task has exactly one consumer.
C16_OneConsumerPerQueue ==
    started # "no" =>
        \A q \in {tasks[t].Queue : t \in DOMAIN tasks} :
            Cardinality({t \in DOMAIN consumers : consumers[t].Queue = q}) = 1

\* C17: no step writes the task map (or is stopped by the runtime for
\* writing it) while Start, outside the lock, ranges over it.
C17_RegistryLocked ==
    [][(tasks' # tasks \/ started' = "crashed") => started # "ranging"]_vars

\* C18: a step in which a worker takes a message and the write of its
\* 'processing' state fails changes no record, no index and no other queue,
\* and the worker does not go on to the handler; afterwards the job keeps
\* the status it had, is in no index, and no message of it is left.
C18_ProcessingWriteFails ==
    /\ [][\A q \in QueueNames :
             (/\ queues[q] # <<>>
              /\ queues'[q] = Tail(queues[q])
              /\ faults' = faults + 1) =>
                 /\ kv' = kv
                 /\ successIdx' = successIdx
                 /\ failedIdx' = failedIdx
                 /\ procs' = procs
                 /\ \A q2 \in QueueNames \ {q} : queues'[q2] = queues[q2]]_vars
    /\ [](\A u \in UUIDs :
             obs[u].abort = "processing" =>
                /\ GetJob(u).Status \in {StatusStarted, StatusRetrying}
                /\ GetJob(u).Retried = obs[u].execs
                /\ u \notin GetSuccess
                /\ u \notin GetFailed
                /\ ~InFlight(u))

C18_Witness ==
    \E u \in UUIDs :
        /\ obs[u].abort = "processing"
        /\ GetJob(u).Status = StatusStarted
        /\ obs[u].execs = 0
        /\ \A w \in DOMAIN procs : procs[w].pc = "select"

\* C19: a worker leaves its dispatch loop only from the select, with the
\* context cancelled, in a step that takes no message and in which no call
\* fails: no failure on a message ends the loop.
C19_WorkerStaysInLoop ==
    [][\A w \in DOMAIN procs :
          (procs[w].pc # "done" /\ procs'[w].pc = "done") =>
              /\ cancelled
              /\ procs[w].pc = "select"
              /\ queues' = queues
              /\ kv' = kv
              /\ faults' = faults]_vars

\* the only worker of the server runs the handler for a message after it
\* gave another message up at a failed call
C19_Witness ==
    /\ Cardinality(DOMAIN procs) = 1
    /\ \E w \in DOMAIN procs :
          /\ procs[w].pc = "handler"
          /\ \E u \in UUIDs \ {procs[w].msg.UUID} : obs[u].abort # ""

\* C20: the record of a job whose handler never returned an error has an
\* empty prev_err, and the 'successful' record of a job whose handler
\* returned an error at least once has the error of the last execution that
\* returned one as prev_err.
C20_PrevErrKept ==
    \A u \in UUIDs :
        HasJob(u) =>
            /\ obs[u].fails = 0 => GetJob(u).PrevErr = ""
            /\ (GetJob(u).Status = StatusDone /\ obs[u].fails > 0) =>
                  /\ GetJob(u).PrevErr = obs[u].lastFail
                  /\ GetJob(u).PrevErr # ""

C20_Witness ==
    \E u \in UUIDs :
        /\ HasJob(u)
        /\ GetJob(u).Status = StatusDone
        /\ u \in GetSuccess
        /\ obs[u].fails = 1
        /\ GetJob(u).PrevErr = "e2"

====
